---- MODULE Spec2Model ----
(***************************************************************************)
(* Model of frontend/src/App.jsx: the IEEE conference paper form.          *)
(*                                                                         *)
(* The component keeps two pieces of React state, formData and pdfUrl.     *)
(* A handler is a closure over the values of the render that created it:   *)
(* it READS formData (the rendered snapshot) and WRITES through            *)
(* setFormData, whose updater function React applies to the latest queued  *)
(* state (here: pending).  A render copies pending into the snapshot.      *)
(* Author objects are JavaScript objects shared by reference between the   *)
(* snapshot and the queued state, so they live in a heap and the author    *)
(* arrays hold references (indices) into it.                               *)
(*                                                                         *)
(* JavaScript array indices are 0-based, TLA+ sequences 1-based: an index  *)
(* input i of a handler addresses position i + 1 of the sequence.          *)
(***************************************************************************)
EXTENDS Integers, Sequences, FiniteSets, TLC

VARIABLES
    formData,       \* the rendered snapshot of the formData state (what the handlers' closures read)
    pending,        \* React's latest formData state: the snapshot with every queued updater applied
    heap,           \* the author objects; formData.authors and pending.authors hold indices into it
    pdfUrl,         \* the pdfUrl state: 0 is null, k > 0 the k-th object URL created
    awaitingFetch,  \* handleSubmit continuations suspended at `await fetch(...)`
    awaitingBlob,   \* handleSubmit continuations suspended at `await response.blob()`
    submitted,      \* number of requests issued so far
    created,        \* number of object URLs created so far (createObjectURL returns a fresh one each time)
    link,           \* the anchor element downloadPdf created and clicked in this step, or NoLink
    lastCall,       \* the handler or continuation that ran in the last step, with its index argument
    result,         \* how the last step ended (the branch it took, or the exception it threw)
    edits,          \* number of form-editing handler calls made so far
    batch,          \* number of handler calls made since the last render
    serial,         \* the document obtained by applying the same calls one at a time (by value)
    roman           \* the local state of one run of toRoman

vars == <<formData, pending, heap, pdfUrl, awaitingFetch, awaitingBlob, submitted,
          created, link, lastCall, result, edits, batch, serial, roman>>

(***************************************************************************)
(* Bounds of the model.                                                    *)
(***************************************************************************)
MaxEdits == 1       \* field-editing calls in an editing session (Spec)
MaxOps == 1         \* form-changing calls in a submission session (SpecSubmit)
MaxSubmits == 2     \* requests issued in a submission session
MaxBatch == 2       \* handler calls between two renders (SpecBatched)
MaxBatchOps == 3    \* form-changing calls in a batched session (SpecBatched)
MaxN == 3999        \* largest argument given to toRoman (SpecRoman)

(***************************************************************************)
(* The data model.                                                         *)
(***************************************************************************)
MaxAuthors == 6
MinAuthors == 1

\* The strings a text input can hold, one per class: empty, whitespace only, text.
Values == {"", " ", "a"}

DocStringFields == {"title", "paperNotice", "funding", "abstract", "keywords", "references"}
AuthorFields == {"firstName", "lastName", "membership", "department", "organization",
                 "cityCountry", "email"}

\* The inputs that carry the `required` attribute.
RequiredDocFields == {"title", "abstract", "keywords"}
RequiredAuthorFields == AuthorFields \ {"membership"}

EmptyAuthor == [f \in AuthorFields |-> ""]

DefaultSections ==
    << [title |-> "Introduction", content |-> ""],
       [title |-> "Section II", content |-> "", subsections |-> << >>] >>

\* useState's initial value; its single author is object 1 of the heap.
DefaultFormData ==
    [title |-> "", paperNotice |-> "", funding |-> "", dropCap |-> TRUE,
     authors |-> << 1 >>,
     abstract |-> "", keywords |-> "",
     sections |-> DefaultSections,
     references |-> ""]

\* The document a formData value denotes: the author references replaced by the objects.
DocOf(fd, h) == [fd EXCEPT !.authors = [i \in DOMAIN fd.authors |-> h[fd.authors[i]]]]

NoLink == [href |-> 0, download |-> ""]

\* A call, as lastCall records it: with its index argument when it takes one.
Call(op) == [op |-> op]
CallAt(op, index) == [op |-> op, index |-> index]

(***************************************************************************)
(* The handlers, as functions of the world w = [formData, pending, heap,   *)
(* result] they run in.                                                    *)
(***************************************************************************)
World == [formData |-> formData, pending |-> pending, heap |-> heap, result |-> result]

\* setFormData(prev => ({...prev, [field]: value}))
handleInputChange(w, field, value) ==
    [w EXCEPT !.pending = [@ EXCEPT ![field] = value],
              !.result = "none"]

\* Mutant: an index one past the end creates the element instead of throwing.
handleAuthorChangeCreating(w, index, field, value) ==
    LET updatedAuthors == w.formData.authors
    IN  IF index + 1 \in DOMAIN updatedAuthors
        THEN [w EXCEPT !.heap = [@ EXCEPT ![updatedAuthors[index + 1]] =
                                            [@ EXCEPT ![field] = value]],
                       !.pending = [@ EXCEPT !.authors = updatedAuthors],
                       !.result = "none"]
        ELSE IF index = Len(updatedAuthors)
        THEN [w EXCEPT !.heap = Append(@, [EmptyAuthor EXCEPT ![field] = value]),
                       !.pending = [@ EXCEPT !.authors =
                                        Append(updatedAuthors, Len(w.heap) + 1)],
                       !.result = "none"]
        ELSE [w EXCEPT !.result = "none"]

\* updatedAuthors = [...formData.authors]; updatedAuthors[index][field] = value;
\* setFormData(prev => ({...prev, authors: updatedAuthors})).
\* updatedAuthors[index] is undefined for an index outside the array, and the
\* assignment to a property of undefined throws a TypeError before setFormData.
handleAuthorChange(w, index, field, value) ==
    LET updatedAuthors == w.formData.authors
    IN  IF index + 1 \in DOMAIN updatedAuthors
        THEN [w EXCEPT !.heap = [@ EXCEPT ![updatedAuthors[index + 1]] =
                                            [@ EXCEPT ![field] = value]],
                       !.pending = [@ EXCEPT !.authors = updatedAuthors],
                       !.result = "none"]
        ELSE [w EXCEPT !.result = "TypeError"]

\* Mutant: the ceiling test is off by one (<= 6).
addAuthorOffByOne(w) ==
    IF Len(w.formData.authors) <= MaxAuthors
    THEN [w EXCEPT !.heap = Append(@, EmptyAuthor),
                   !.pending = [@ EXCEPT !.authors = Append(@, Len(w.heap) + 1)],
                   !.result = "none"]
    ELSE [w EXCEPT !.result = "ignored"]

\* if (formData.authors.length < 6) setFormData(prev => ({...prev, authors: [...prev.authors, {...}]}))
addAuthor(w) ==
    IF Len(w.formData.authors) < MaxAuthors
    THEN [w EXCEPT !.heap = Append(@, EmptyAuthor),
                   !.pending = [@ EXCEPT !.authors = Append(@, Len(w.heap) + 1)],
                   !.result = "none"]
    ELSE [w EXCEPT !.result = "ignored"]

\* formData.authors.filter((_, i) => i !== index)
FilterOut(s, index) ==
    LET keep == {i \in DOMAIN s : i # index + 1}
        pos(k) == CHOOSE i \in keep : Cardinality({j \in keep : j < i}) = k - 1
    IN  [k \in 1..Cardinality(keep) |-> s[pos(k)]]

\* Mutant: the floor test is off by one (> 0).
removeAuthorOffByOne(w, index) ==
    IF Len(w.formData.authors) > MinAuthors - 1
    THEN [w EXCEPT !.pending = [@ EXCEPT !.authors = FilterOut(w.formData.authors, index)],
                   !.result = "none"]
    ELSE [w EXCEPT !.result = "ignored"]

\* if (formData.authors.length > 1) setFormData(prev => ({...prev, authors: updatedAuthors}))
removeAuthor(w, index) ==
    IF Len(w.formData.authors) > MinAuthors
    THEN [w EXCEPT !.pending = [@ EXCEPT !.authors = FilterOut(w.formData.authors, index)],
                   !.result = "none"]
    ELSE [w EXCEPT !.result = "ignored"]

\* updatedSections = [...formData.sections]; updatedSections[index].content = value;
\* setFormData(prev => ({...prev, sections: updatedSections})).
\* The section objects are never replaced, so the snapshot and the queued state
\* always hold the same two objects and the assignment shows in both.
sectionChange(w, index, value) ==
    LET updatedSections == w.formData.sections
    IN  IF index + 1 \in DOMAIN updatedSections
        THEN LET mutated == [updatedSections EXCEPT ![index + 1] =
                                                    [@ EXCEPT !.content = value]]
             IN  [w EXCEPT !.formData = [@ EXCEPT !.sections = mutated],
                           !.pending = [@ EXCEPT !.sections = mutated],
                           !.result = "none"]
        ELSE [w EXCEPT !.result = "TypeError"]

\* A render: the component function runs again, its closures now see the latest
\* state.  Objects no array refers to any more are garbage; the live ones are
\* renumbered in roster order (object identity is not observable).
render(w) ==
    LET n == Len(w.pending.authors)
        fd == [w.pending EXCEPT !.authors = [i \in 1..n |-> i]]
    IN  [w EXCEPT !.formData = fd,
                  !.pending = fd,
                  !.heap = [i \in 1..n |-> w.heap[w.pending.authors[i]]]]

Install(w) ==
    /\ formData' = w.formData
    /\ pending' = w.pending
    /\ heap' = w.heap
    /\ result' = w.result

(***************************************************************************)
(* The same calls applied one at a time to a document held by value: each  *)
(* call sees the result of the previous one.                               *)
(***************************************************************************)
SerialSetField(d, field, value) == [d EXCEPT ![field] = value]

SerialSetAuthorField(d, index, field, value) ==
    IF index + 1 \in DOMAIN d.authors
    THEN [d EXCEPT !.authors = [@ EXCEPT ![index + 1] = [@ EXCEPT ![field] = value]]]
    ELSE d

SerialAddAuthor(d) ==
    IF Len(d.authors) < MaxAuthors
    THEN [d EXCEPT !.authors = Append(@, EmptyAuthor)]
    ELSE d

SerialRemoveAuthor(d, index) ==
    IF Len(d.authors) > MinAuthors
    THEN [d EXCEPT !.authors = FilterOut(@, index)]
    ELSE d

SerialSetSectionContent(d, index, value) ==
    IF index + 1 \in DOMAIN d.sections
    THEN [d EXCEPT !.sections = [@ EXCEPT ![index + 1] = [@ EXCEPT !.content = value]]]
    ELSE d

(***************************************************************************)
(* Inputs.                                                                 *)
(***************************************************************************)
\* Every position of the rendered roster, and one index before and one past it.
AuthorIndexInputs == -1 .. Len(formData.authors)
SectionIndexInputs == -1 .. Len(formData.sections)

SubmitVars == <<pdfUrl, awaitingFetch, awaitingBlob, submitted, created>>

Init ==
    /\ formData = DefaultFormData
    /\ pending = DefaultFormData
    /\ heap = << EmptyAuthor >>
    /\ pdfUrl = 0
    /\ awaitingFetch = 0
    /\ awaitingBlob = 0
    /\ submitted = 0
    /\ created = 0
    /\ link = NoLink
    /\ lastCall = Call("none")
    /\ result = "none"
    /\ edits = 0
    /\ batch = 0
    /\ serial = DocOf(DefaultFormData, << EmptyAuthor >>)
    /\ roman = [pc |-> "idle"]

(***************************************************************************)
(* Events of an editing session.  React handles each user event on its own: *)
(* it applies the updates the event's handler queued and renders again     *)
(* before the handler of the next event runs, so an event is its handler   *)
(* followed by a render.  (Handlers that run against one and the same      *)
(* render are the batched sessions, SpecBatched, further down.)            *)
(***************************************************************************)
EvInputChange ==
    \E field \in DocStringFields \cup {"dropCap"} :
      \E value \in (IF field = "dropCap" THEN BOOLEAN ELSE Values) :
        /\ Install(render(handleInputChange(World, field, value)))
        /\ serial' = SerialSetField(serial, field, value)
        /\ lastCall' = Call("handleInputChange")
        /\ link' = NoLink
        /\ edits' = edits + 1
        /\ UNCHANGED <<batch, roman>>
        /\ UNCHANGED SubmitVars

EvAuthorChange ==
    \E index \in AuthorIndexInputs, field \in AuthorFields, value \in Values :
        /\ Install(render(handleAuthorChange(World, index, field, value)))
        /\ serial' = SerialSetAuthorField(serial, index, field, value)
        /\ lastCall' = CallAt("handleAuthorChange", index)
        /\ link' = NoLink
        /\ edits' = edits + 1
        /\ UNCHANGED <<batch, roman>>
        /\ UNCHANGED SubmitVars

EvSectionChange ==
    \E index \in SectionIndexInputs, value \in Values :
        /\ Install(render(sectionChange(World, index, value)))
        /\ serial' = SerialSetSectionContent(serial, index, value)
        /\ lastCall' = CallAt("sectionChange", index)
        /\ link' = NoLink
        /\ edits' = edits + 1
        /\ UNCHANGED <<batch, roman>>
        /\ UNCHANGED SubmitVars

EvAddAuthor ==
    /\ Install(render(addAuthor(World)))
    /\ serial' = SerialAddAuthor(serial)
    /\ lastCall' = Call("addAuthor")
    /\ link' = NoLink
    /\ UNCHANGED <<batch, roman>>
    /\ UNCHANGED SubmitVars

EvRemoveAuthor ==
    \E index \in AuthorIndexInputs :
        /\ Install(render(removeAuthor(World, index)))
        /\ serial' = SerialRemoveAuthor(serial, index)
        /\ lastCall' = CallAt("removeAuthor", index)
        /\ link' = NoLink
        /\ UNCHANGED <<batch, roman>>
        /\ UNCHANGED SubmitVars

EditInputChange == edits < MaxEdits /\ EvInputChange
EditAuthorChange == edits < MaxEdits /\ EvAuthorChange
EditSectionChange == edits < MaxEdits /\ EvSectionChange
EditAddAuthor == EvAddAuthor /\ UNCHANGED edits
EditRemoveAuthor == EvRemoveAuthor /\ UNCHANGED edits

Next ==
    \/ EditInputChange
    \/ EditAuthorChange
    \/ EditSectionChange
    \/ EditAddAuthor
    \/ EditRemoveAuthor

Spec == Init /\ [][Next]_vars

(***************************************************************************)
(* Properties of an editing session.                                       *)
(***************************************************************************)
\* The roster of the current document, by value.
Roster == DocOf(pending, heap).authors

BadIndexCall(op, seq) ==
    /\ edits' = edits + 1
    /\ lastCall'.op = op
    /\ lastCall'.index + 1 \notin DOMAIN seq

RequiredFilled(d) ==
    /\ \A f \in RequiredDocFields : d[f] # ""
    /\ \A i \in DOMAIN d.authors : \A f \in RequiredAuthorFields : d.authors[i][f] # ""

\* The part of the state handleSubmit's continuations work on.
SubmitState ==
    [pdfUrl |-> pdfUrl, awaitingFetch |-> awaitingFetch, awaitingBlob |-> awaitingBlob,
     created |-> created, result |-> result]

\* Mutant: the non-success branch clears the retained URL.
onFetchSettledClearing(s, response) ==
    IF response = "2xx"
    THEN [s EXCEPT !.awaitingFetch = @ - 1, !.awaitingBlob = @ + 1, !.result = "none"]
    ELSE IF response = "non2xx"
    THEN [s EXCEPT !.awaitingFetch = @ - 1, !.pdfUrl = 0, !.result = "ServiceRejected"]
    ELSE [s EXCEPT !.awaitingFetch = @ - 1, !.result = "TransportFailure"]

\* The continuation of handleSubmit after `await fetch(...)`:
\*   response.ok          -> goes on to `await response.blob()`
\*   a non-2xx response   -> console.error('Error generating PDF')   (ServiceRejected)
\*   the promise rejected -> catch: console.error('Error:', error)   (TransportFailure)
onFetchSettled(s, response) ==
    IF response = "2xx"
    THEN [s EXCEPT !.awaitingFetch = @ - 1, !.awaitingBlob = @ + 1, !.result = "none"]
    ELSE IF response = "non2xx"
    THEN [s EXCEPT !.awaitingFetch = @ - 1, !.result = "ServiceRejected"]
    ELSE [s EXCEPT !.awaitingFetch = @ - 1, !.result = "TransportFailure"]

\* Mutant: a new URL is stored only when none is retained yet.
onBlobSettledKeepingFirst(s, read) ==
    IF read
    THEN [s EXCEPT !.awaitingBlob = @ - 1, !.created = @ + 1,
                   !.pdfUrl = IF @ = 0 THEN s.created + 1 ELSE @,
                   !.result = "Artifact"]
    ELSE [s EXCEPT !.awaitingBlob = @ - 1, !.result = "TransportFailure"]

\* The continuation of handleSubmit after `await response.blob()`:
\*   the body was read    -> url = createObjectURL(blob); setPdfUrl(url)
\*   the promise rejected -> catch: console.error('Error:', error)
onBlobSettled(s, read) ==
    IF read
    THEN [s EXCEPT !.awaitingBlob = @ - 1, !.created = @ + 1, !.pdfUrl = s.created + 1,
                   !.result = "Artifact"]
    ELSE [s EXCEPT !.awaitingBlob = @ - 1, !.result = "TransportFailure"]

InstallSubmit(s) ==
    /\ pdfUrl' = s.pdfUrl
    /\ awaitingFetch' = s.awaitingFetch
    /\ awaitingBlob' = s.awaitingBlob
    /\ created' = s.created
    /\ result' = s.result

\* Mutant: the link is created and clicked whether or not a URL is retained.
downloadPdfUnguarded(url) == [href |-> url, download |-> "ieee_conference_paper.pdf"]

\* if (pdfUrl) { link.href = pdfUrl; link.download = 'ieee_conference_paper.pdf'; link.click(); }
downloadPdf(url) ==
    IF url # 0
    THEN [href |-> url, download |-> "ieee_conference_paper.pdf"]
    ELSE NoLink

DocVars == <<formData, pending, heap, serial, edits, batch>>

\* The form's submit event: the browser fires it only when the required inputs
\* are filled; handleSubmit then sends the snapshot and suspends at the fetch.
HandleSubmit ==
    /\ submitted < MaxSubmits
    /\ RequiredFilled(DocOf(formData, heap))
    /\ submitted' = submitted + 1
    /\ awaitingFetch' = awaitingFetch + 1
    /\ lastCall' = Call("handleSubmit")
    /\ result' = "none"
    /\ link' = NoLink
    /\ UNCHANGED <<pdfUrl, awaitingBlob, created, roman>>
    /\ UNCHANGED DocVars

FetchSettled ==
    \E response \in {"2xx", "non2xx", "rejected"} :
        /\ awaitingFetch > 0
        /\ InstallSubmit(onFetchSettled(SubmitState, response))
        /\ lastCall' = [op |-> "fetchSettled", response |-> response]
        /\ link' = NoLink
        /\ UNCHANGED <<submitted, roman>>
        /\ UNCHANGED DocVars

BlobSettled ==
    \E read \in BOOLEAN :
        /\ awaitingBlob > 0
        /\ InstallSubmit(onBlobSettled(SubmitState, read))
        /\ lastCall' = [op |-> "blobSettled", read |-> read]
        /\ link' = NoLink
        /\ UNCHANGED <<submitted, roman>>
        /\ UNCHANGED DocVars

DownloadPdf ==
    /\ link' = downloadPdf(pdfUrl)
    /\ result' = IF pdfUrl # 0 THEN "none" ELSE "ignored"
    /\ lastCall' = Call("downloadPdf")
    /\ UNCHANGED <<roman>>
    /\ UNCHANGED SubmitVars
    /\ UNCHANGED DocVars

\* A form every required input of which has been filled in.
FilledAuthor == [f \in AuthorFields |-> IF f \in RequiredAuthorFields THEN "a" ELSE ""]
FilledFormData ==
    [DefaultFormData EXCEPT !.title = "a", !.abstract = "a", !.keywords = "a"]

\* A submission session starts from the initial form or from a filled-in one.
InitSubmit ==
    /\ \E filled \in BOOLEAN :
        /\ formData = (IF filled THEN FilledFormData ELSE DefaultFormData)
        /\ heap = (IF filled THEN << FilledAuthor >> ELSE << EmptyAuthor >>)
    /\ pending = formData
    /\ serial = DocOf(formData, heap)
    /\ pdfUrl = 0
    /\ awaitingFetch = 0
    /\ awaitingBlob = 0
    /\ submitted = 0
    /\ created = 0
    /\ link = NoLink
    /\ lastCall = Call("none")
    /\ result = "none"
    /\ edits = 0
    /\ batch = 0
    /\ roman = [pc |-> "idle"]

SubInputChange == edits < MaxOps /\ EvInputChange
SubAuthorChange == edits < MaxOps /\ EvAuthorChange
SubSectionChange == edits < MaxOps /\ EvSectionChange
SubAddAuthor == edits < MaxOps /\ EvAddAuthor /\ edits' = edits + 1
SubRemoveAuthor == edits < MaxOps /\ EvRemoveAuthor /\ edits' = edits + 1

NextSubmit ==
    \/ SubInputChange
    \/ SubAuthorChange
    \/ SubSectionChange
    \/ SubAddAuthor
    \/ SubRemoveAuthor
    \/ HandleSubmit
    \/ FetchSettled
    \/ BlobSettled
    \/ DownloadPdf

SpecSubmit == InitSubmit /\ [][NextSubmit]_vars

(***************************************************************************)
(* Properties of a submission session.                                     *)
(***************************************************************************)
\* trim(): leading and trailing whitespace removed.
Trim(v) == IF v = " " THEN "" ELSE v

\* The invariants of the data model a document must satisfy to be submitted.
ValidDocument(d) ==
    /\ Len(d.authors) \in 1..6
    /\ \A f \in RequiredDocFields : Trim(d[f]) # ""
    /\ \A i \in DOMAIN d.authors : \A f \in RequiredAuthorFields : Trim(d.authors[i][f]) # ""
    /\ Len(d.sections) > 0

\* C3: a generation request is sent only when the document satisfies every
\* invariant of the data model (1..6 authors, every required field non-empty
\* after trimming, sections non-empty).
C3_RequestOnlyForValidDocument ==
    lastCall.op = "handleSubmit" => ValidDocument(DocOf(formData, heap))

C5_NoDownloadBeforeSuccess ==
    /\ (lastCall.op = "downloadPdf" /\ created = 0) => (link = NoLink /\ result = "ignored")
    /\ link # NoLink => (created > 0 /\ link.download = "ieee_conference_paper.pdf")

\* A download was attempted after a request was sent but before any succeeded.
C5_Witness ==
    /\ lastCall.op = "downloadPdf"
    /\ submitted > 0
    /\ created = 0

C9_SingleFlight == awaitingFetch <= 1

(***************************************************************************)
(* Batched sessions: several handlers run against the same render (events  *)
(* dispatched from one synchronous script, where React queues the updaters *)
(* and renders once afterwards).  A render is a step of its own here, and  *)
(* a handler may read a snapshot that is older than the state its updater  *)
(* is applied to.                                                          *)
(***************************************************************************)
BatchRest == <<link, roman>>

BInputChange ==
    \E field \in DocStringFields \cup {"dropCap"} :
      \E value \in (IF field = "dropCap" THEN BOOLEAN ELSE Values) :
        /\ batch < MaxBatch /\ edits < MaxBatchOps
        /\ Install(handleInputChange(World, field, value))
        /\ serial' = SerialSetField(serial, field, value)
        /\ lastCall' = Call("handleInputChange")
        /\ edits' = edits + 1 /\ batch' = batch + 1
        /\ UNCHANGED BatchRest /\ UNCHANGED SubmitVars

BAuthorChange ==
    \E index \in AuthorIndexInputs, field \in AuthorFields, value \in Values :
        /\ batch < MaxBatch /\ edits < MaxBatchOps
        /\ Install(handleAuthorChange(World, index, field, value))
        /\ serial' = SerialSetAuthorField(serial, index, field, value)
        /\ lastCall' = CallAt("handleAuthorChange", index)
        /\ edits' = edits + 1 /\ batch' = batch + 1
        /\ UNCHANGED BatchRest /\ UNCHANGED SubmitVars

BSectionChange ==
    \E index \in SectionIndexInputs, value \in Values :
        /\ batch < MaxBatch /\ edits < MaxBatchOps
        /\ Install(sectionChange(World, index, value))
        /\ serial' = SerialSetSectionContent(serial, index, value)
        /\ lastCall' = CallAt("sectionChange", index)
        /\ edits' = edits + 1 /\ batch' = batch + 1
        /\ UNCHANGED BatchRest /\ UNCHANGED SubmitVars

BAddAuthor ==
    /\ batch < MaxBatch /\ edits < MaxBatchOps
    /\ Install(addAuthor(World))
    /\ serial' = SerialAddAuthor(serial)
    /\ lastCall' = Call("addAuthor")
    /\ edits' = edits + 1 /\ batch' = batch + 1
    /\ UNCHANGED BatchRest /\ UNCHANGED SubmitVars

BRemoveAuthor ==
    \E index \in AuthorIndexInputs :
        /\ batch < MaxBatch /\ edits < MaxBatchOps
        /\ Install(removeAuthor(World, index))
        /\ serial' = SerialRemoveAuthor(serial, index)
        /\ lastCall' = CallAt("removeAuthor", index)
        /\ edits' = edits + 1 /\ batch' = batch + 1
        /\ UNCHANGED BatchRest /\ UNCHANGED SubmitVars

Render ==
    /\ batch > 0
    /\ Install(render(World))
    /\ lastCall' = Call("render")
    /\ batch' = 0
    /\ UNCHANGED <<serial, edits>> /\ UNCHANGED BatchRest /\ UNCHANGED SubmitVars

NextBatched ==
    \/ BInputChange
    \/ BAuthorChange
    \/ BSectionChange
    \/ BAddAuthor
    \/ BRemoveAuthor
    \/ Render

SpecBatched == Init /\ [][NextBatched]_vars

\* C10: no mutation is lost: after any sequence of handler calls, two calls
\* made against the same rendered snapshot included, the document equals the
\* one obtained by applying the same calls one at a time, each to the result
\* of the previous one.
C10_NoLostMutation == DocOf(pending, heap) = serial

(***************************************************************************)
(* toRoman, one run of it per behaviour, one loop test per step.           *)
(***************************************************************************)
\* Mutant: the table lacks the entry 400:CD.
romanNumeralsWithoutCD ==
    << [value |-> 1000, numeral |-> "M"], [value |-> 900, numeral |-> "CM"],
       [value |-> 500, numeral |-> "D"],
       [value |-> 100, numeral |-> "C"], [value |-> 90, numeral |-> "XC"],
       [value |-> 50, numeral |-> "L"], [value |-> 40, numeral |-> "XL"],
       [value |-> 10, numeral |-> "X"], [value |-> 9, numeral |-> "IX"],
       [value |-> 5, numeral |-> "V"], [value |-> 4, numeral |-> "IV"],
       [value |-> 1, numeral |-> "I"] >>

romanNumerals ==
    << [value |-> 1000, numeral |-> "M"], [value |-> 900, numeral |-> "CM"],
       [value |-> 500, numeral |-> "D"], [value |-> 400, numeral |-> "CD"],
       [value |-> 100, numeral |-> "C"], [value |-> 90, numeral |-> "XC"],
       [value |-> 50, numeral |-> "L"], [value |-> 40, numeral |-> "XL"],
       [value |-> 10, numeral |-> "X"], [value |-> 9, numeral |-> "IX"],
       [value |-> 5, numeral |-> "V"], [value |-> 4, numeral |-> "IV"],
       [value |-> 1, numeral |-> "I"] >>

\* toRoman(num) is entered: result = '', the for loop is at the first table entry.
InitRoman ==
    /\ \E n \in 1..MaxN :
        roman = [pc |-> "loop", input |-> n, num |-> n, entry |-> 1, result |-> ""]
    /\ formData = DefaultFormData
    /\ pending = DefaultFormData
    /\ heap = << EmptyAuthor >>
    /\ serial = DocOf(DefaultFormData, << EmptyAuthor >>)
    /\ pdfUrl = 0
    /\ awaitingFetch = 0
    /\ awaitingBlob = 0
    /\ submitted = 0
    /\ created = 0
    /\ link = NoLink
    /\ lastCall = Call("none")
    /\ result = "none"
    /\ edits = 0
    /\ batch = 0

RomanRest ==
    <<formData, pending, heap, serial, pdfUrl, awaitingFetch, awaitingBlob, submitted,
      created, link, lastCall, result, edits, batch>>

\* while (num >= value) { result += numeral; num -= value; }
RomanAppend ==
    /\ roman.pc = "loop"
    /\ roman.entry <= Len(romanNumerals)
    /\ roman.num >= romanNumerals[roman.entry].value
    /\ roman' = [roman EXCEPT !.result = @ \o romanNumerals[roman.entry].numeral,
                              !.num = @ - romanNumerals[roman.entry].value]
    /\ UNCHANGED RomanRest

\* The while test fails: the for loop moves to the next table entry.
RomanAdvance ==
    /\ roman.pc = "loop"
    /\ roman.entry <= Len(romanNumerals)
    /\ roman.num < romanNumerals[roman.entry].value
    /\ roman' = [roman EXCEPT !.entry = @ + 1]
    /\ UNCHANGED RomanRest

\* The table is exhausted: return result.
RomanReturn ==
    /\ roman.pc = "loop"
    /\ roman.entry > Len(romanNumerals)
    /\ roman' = [roman EXCEPT !.pc = "done"]
    /\ UNCHANGED RomanRest

NextRoman ==
    \/ RomanAppend
    \/ RomanAdvance
    \/ RomanReturn

\* The call runs to completion once entered: nothing else is scheduled inside it.
SpecRoman == InitRoman /\ [][NextRoman]_vars /\ WF_vars(NextRoman)

\* The canonical Roman numeral of n, digit by digit.
RECURSIVE Repeat(_, _)
Repeat(str, k) == IF k = 0 THEN "" ELSE str \o Repeat(str, k - 1)

Digit(d, one, five, ten) ==
    CASE d = 0 -> ""
      [] d \in 1..3 -> Repeat(one, d)
      [] d = 4 -> one \o five
      [] d \in 5..8 -> five \o Repeat(one, d - 5)
      [] d = 9 -> one \o ten

Canonical(n) ==
    Repeat("M", n \div 1000)
      \o Digit((n \div 100) % 10, "C", "D", "M")
      \o Digit((n \div 10) % 10, "X", "L", "C")
      \o Digit(n % 10, "I", "V", "X")

\* The values the specification spells out.
SpotValues ==
    {<<1, "I">>, <<4, "IV">>, <<9, "IX">>, <<14, "XIV">>, <<19, "XIX">>, <<20, "XX">>,
     <<40, "XL">>, <<90, "XC">>, <<400, "CD">>, <<900, "CM">>, <<3999, "MMMCMXCIX">>}

\* C7: for every n in 1..3999 toRoman(n) terminates and returns the canonical
\* Roman numeral of n; in particular it returns the values spelled out for
\* 1, 4, 9, 14, 19, 20, 40, 90, 400, 900 and 3999.
C7_ToRomanCanonical ==
    /\ <>(roman.pc = "done")
    /\ [](roman.pc = "done" =>
            /\ roman.result = Canonical(roman.input)
            /\ \A sv \in SpotValues : roman.input = sv[1] => roman.result = sv[2])

\* toRoman(3999) has returned MMMCMXCIX.
C7_Witness ==
    /\ roman.pc = "done"
    /\ roman.input = 3999
    /\ roman.result = "MMMCMXCIX"

====
